---------------------------- MODULE Spec2Model ----------------------------
(***************************************************************************)
(* State-machine model of wasm-splatwalk: convert_splat_to_mesh (lib.rs),  *)
(* parse_ply (splat.rs) and the reconstructors of mesh.rs.                 *)
(*                                                                         *)
(* Lengths are fixed-point integers in hundredths (so 0.05 is 5).         *)
(* A position with a NaN coordinate is the value NaN; every dot product    *)
(* with it is NaN, as in IEEE arithmetic.  Indices, faces and component    *)
(* ids are 0-based as in the source; sequences are TLA+ 1-based, so        *)
(* element i of a Vec v is v[i + 1].                                       *)
(***************************************************************************)
EXTENDS Integers, Sequences, FiniteSets, TLC

VARIABLES
    pc,        \* position of the call in the source
    data,      \* the input byte buffer of convert_splat_to_mesh
    settings,  \* MeshSettings
    splats,    \* Vec<PointNormal> returned by parse_ply
    calls,     \* functions invoked so far, with the samples handed to each
    ret,       \* what convert_splat_to_mesh returned: NoRet, RetErr or a MeshResult
    nav,       \* locals of reconstruct_voxel_navmesh
    vertices,  \* Vec<f32> being emitted (3 entries per vertex)
    indices,   \* Vec<u32> being emitted (3 entries per face)
    cc,        \* locals of filter_largest_connected_component
    mesh,      \* the ReconstructedMesh returned, or NoMesh
    prev       \* result of the previous call on the same input, or NoMesh

vars == <<pc, data, settings, splats, calls, ret, nav, vertices, indices, cc, mesh, prev>>

---------------------------------------------------------------------------
(* Bounds of the model *)

\* filter_largest_connected_component inputs: vertex count and face count
MaxVerts == 3
MaxFaces == 3

\* RANSAC trials explored per call (the source runs 1000 or 2000)
RansacIters == 2

\* height fields of the emission: grid side, corners without coverage, raised corners
MaxGrid == 2
MaxInvalid == 1
MaxRaised == 1

\* samples in a file, and bytes of a buffer prefix
MaxSplats == 4
MaxHead == 4

\* samples handed to the NavMesh reconstructor
MaxSamples == 4

---------------------------------------------------------------------------
(* Generic helpers *)

NoMesh == [none |-> TRUE]
NoCc == [none |-> TRUE]
NoNav == [none |-> TRUE]
NoSettings == [none |-> TRUE]
NoData == [none |-> TRUE]
NoRet == [tag |-> "none"]
RetErr == [tag |-> "err"]

Range(s) == {s[i] : i \in DOMAIN s}

\* all orderings of a finite set, as sequences
Perms(S) == {p \in [1..Cardinality(S) -> S] : \A a, b \in 1..Cardinality(S) : p[a] = p[b] => a = b}

\* ascending enumeration of a finite set of integers (Vec::sort)
RECURSIVE SortedSeq(_)
SortedSeq(S) ==
    IF S = {} THEN <<>>
    ELSE LET m == CHOOSE x \in S : \A y \in S : x <= y
         IN <<m>> \o SortedSeq(S \ {m})

RECURSIVE FlattenSeq(_)
FlattenSeq(ss) == IF ss = <<>> THEN <<>> ELSE Head(ss) \o FlattenSeq(Tail(ss))


\* Option<T>
None == [some |-> FALSE]
Some(x) == [some |-> TRUE, v |-> x]
unwrap_or(o, d) == IF o.some THEN o.v ELSE d

Abs(x) == IF x < 0 THEN -x ELSE x
Min2(a, b) == IF a <= b THEN a ELSE b
Max2(a, b) == IF a >= b THEN a ELSE b
SetMin(S) == CHOOSE x \in S : \A y \in S : x <= y
SetMax(S) == CHOOSE x \in S : \A y \in S : x >= y
CeilDiv(a, b) == -((-a) \div b)
Clamp(x, lo, hi) == IF x < lo THEN lo ELSE IF x > hi THEN hi ELSE x

RECURSIVE ISqrtFrom(_, _)
ISqrtFrom(x, r) == IF (r + 1) * (r + 1) > x THEN r ELSE ISqrtFrom(x, r + 1)
\* square root rounded down to the fixed-point grid
ISqrt(x) == ISqrtFrom(x, 0)

\* subsequence of s at the positions where Keep holds, order kept
RECURSIVE SelectFrom(_, _, _)
SelectFrom(s, keep, i) ==
    IF i > Len(s) THEN <<>>
    ELSE (IF keep[i] THEN <<s[i]>> ELSE <<>>) \o SelectFrom(s, keep, i + 1)
SelectIdx(s, Keep(_), i) == SelectFrom(s, [k \in DOMAIN s |-> Keep(k)], i)

---------------------------------------------------------------------------
(* Vectors.  A Vector3/Point3 is a triple; a point with a NaN coordinate   *)
(* is NaN, and arithmetic on it yields NaN.                                *)

NaN == <<>>
IsNaN(p) == p = NaN

Dot(a, b) == a[1] * b[1] + a[2] * b[2] + a[3] * b[3]
Cross(a, b) == <<a[2] * b[3] - a[3] * b[2], a[3] * b[1] - a[1] * b[3], a[1] * b[2] - a[2] * b[1]>>
VAdd(a, b) == <<a[1] + b[1], a[2] + b[2], a[3] + b[3]>>
VSub(a, b) == <<a[1] - b[1], a[2] - b[2], a[3] - b[3]>>
VScale(k, a) == <<k * a[1], k * a[2], k * a[3]>>
VNeg(a) == VScale(-1, a)
Zero3 == <<0, 0, 0>>

\* a vector along one coordinate axis; the model's bases are of this kind
IsAxis(a) == Cardinality({i \in 1..3 : a[i] # 0}) = 1
\* normalize() of a vector along an axis
Normalize(a) == <<a[1] \div Abs(a[1] + a[2] + a[3]), a[2] \div Abs(a[1] + a[2] + a[3]),
                  a[3] \div Abs(a[1] + a[2] + a[3])>>

---------------------------------------------------------------------------
(* parse_ply, splat.rs 45-127 *)

NGSP == <<"N", "G", "S", "P">>
PlyMagic == <<"p", "l", "y">>

\* data.len() >= 4 && &data[0..4] == b"NGSP"  (splat.rs 47)
\* a magic test that looks at three bytes only
is_ngsp_short(bytes) == Len(bytes) >= 3 /\ SubSeq(bytes, 1, 3) = SubSeq(NGSP, 1, 3)

is_ngsp(bytes) == Len(bytes) >= 4 /\ SubSeq(bytes, 1, 4) = NGSP

\* Z axis rotated by the unit quaternion q/|q|, q = <<w, x, y, z>>
\* (splat.rs 68-77 for unit input; splat.rs 117-118 normalizes first)
QuatNormal(q) ==
    LET n2 == q[1] * q[1] + q[2] * q[2] + q[3] * q[3] + q[4] * q[4]
    IN <<(2 * (q[2] * q[4] + q[3] * q[1])) \div n2,
         (2 * (q[3] * q[4] - q[2] * q[1])) \div n2,
         (n2 - 2 * (q[2] * q[2] + q[3] * q[3])) \div n2>>

\* scale and opacity of a decoded sample: the PLY path reads neither
ply_scale == <<100, 100, 100>>
ply_opacity == 100
spz_scale(g) == g.scale
spz_opacity(g) == g.opacity

\* splat.rs 57-80: one unpacked gaussian to a PointNormal
spz_point(g) ==
    [point |-> g.position, normal |-> QuatNormal(g.rotation),
     scale |-> spz_scale(g), opacity |-> spz_opacity(g)]

\* splat.rs 112-124: one PLY vertex to a PointNormal
ply_point(g) ==
    [point |-> g.position, normal |-> QuatNormal(g.rotation),
     scale |-> ply_scale, opacity |-> ply_opacity]

\* a decoder that swallows its failure and returns no samples
parse_ply_lenient(d) ==
    IF is_ngsp(d.bytes)
    THEN [ok |-> TRUE, parser |-> "spz_rs",
          v |-> IF d.body.spz = "ok"
                THEN [i \in DOMAIN d.body.samples |-> spz_point(d.body.samples[i])]
                ELSE <<>>]
    ELSE [ok |-> TRUE, parser |-> "ply_rs",
          v |-> IF d.body.ply = "ok"
                THEN [i \in DOMAIN d.body.samples |-> ply_point(d.body.samples[i])]
                ELSE <<>>]

\* splat.rs 45-127: the Result<Vec<PointNormal>, String> of parse_ply and the
\* external parser it ran.  The external parsers' answers are part of the
\* input: d.body.spz is what spz_rs returns on these bytes, d.body.ply what
\* ply_rs returns (header error, no vertex element, payload error or ok).
parse_ply_result(d) ==
    IF is_ngsp(d.bytes)
    THEN IF d.body.spz = "ok"
         THEN [ok |-> TRUE, parser |-> "spz_rs",
               v |-> [i \in DOMAIN d.body.samples |-> spz_point(d.body.samples[i])]]
         ELSE [ok |-> FALSE, parser |-> "spz_rs"]
    ELSE IF d.body.ply = "ok"
         THEN [ok |-> TRUE, parser |-> "ply_rs",
               v |-> [i \in DOMAIN d.body.samples |-> ply_point(d.body.samples[i])]]
         ELSE [ok |-> FALSE, parser |-> "ply_rs"]

\* lib.rs 45: parse_ply(data).map_err(..)?
parse_ply ==
    /\ pc = "parse"
    /\ calls' = calls \cup {[fn |-> parse_ply_result(data).parser, pts |-> <<>>]}
    /\ IF parse_ply_result(data).ok
       THEN /\ splats' = parse_ply_result(data).v
            /\ pc' = "parsed"
            /\ ret' = ret
       ELSE /\ splats' = splats
            /\ pc' = "done"
            /\ ret' = RetErr
    /\ UNCHANGED <<data, settings, nav, vertices, indices, cc, mesh, prev>>

---------------------------------------------------------------------------
(* Plane and the RANSAC trial, mesh.rs 13-35, 166-181, 544-564 *)

\* program constants, lengths in hundredths
plane_iterations == 2000
plane_threshold == 20
nav_iterations == 1000
default_voxel_target == 4000
default_min_alpha == 5
default_max_scale == 500
default_normal_align == 5
default_ransac_thresh == 10
min_cell_size == 5
max_cell_size == 200
min_vertex_weight == 10000
max_radius == 3

\* Plane::from_points (mesh.rs 19-30).  The plane is kept by its cross
\* product n (normal = n/|n|) and dn = -n.p1 (d = dn/|n|).  normalize() of a
\* zero cross product, or of one with a NaN operand, is NaN, whose magnitude
\* is not < 1e-6: the function returns Some(plane) with a NaN normal.
from_points(p1, p2, p3) ==
    IF IsNaN(p1) \/ IsNaN(p2) \/ IsNaN(p3) \/ Cross(VSub(p2, p1), VSub(p3, p1)) = Zero3
    THEN [nan |-> TRUE, n |-> Zero3, dn |-> 0]
    ELSE [nan |-> FALSE, n |-> Cross(VSub(p2, p1), VSub(p3, p1)),
          dn |-> -Dot(Cross(VSub(p2, p1), VSub(p3, p1)), p1)]

\* plane.distance(p) < thresh (mesh.rs 32-34, 174, 554); comparisons with
\* NaN are false
is_inlier(plane, p, thresh) ==
    /\ ~plane.nan
    /\ ~IsNaN(p)
    /\ thresh > 0
    /\ (Dot(plane.n, p) + plane.dn) * (Dot(plane.n, p) + plane.dn)
          < thresh * thresh * Dot(plane.n, plane.n)

count_inliers(plane, pts, thresh) ==
    Cardinality({i \in DOMAIN pts : is_inlier(plane, pts[i], thresh)})

\* plane.normal and plane.d of a plane whose normal lies along an axis
plane_normal(plane) == Normalize(plane.n)
plane_d(plane) == plane.dn \div Abs(plane.n[1] + plane.n[2] + plane.n[3])

\* a trial that also takes a candidate with as many inliers as the best
ransac_trial_latest(st, pts, thresh, i1, i2, i3) ==
    IF i1 = i2 \/ i2 = i3 \/ i1 = i3 THEN st
    ELSE LET plane == from_points(pts[i1 + 1], pts[i2 + 1], pts[i3 + 1])
             inliers == count_inliers(plane, pts, thresh)
         IN IF inliers >= st.max_inliers
            THEN [best_plane |-> Some(plane), max_inliers |-> inliers]
            ELSE st

\* one RANSAC trial on indices i1, i2, i3 (0-based): mesh.rs 167-180, 545-563
ransac_trial(st, pts, thresh, i1, i2, i3) ==
    IF i1 = i2 \/ i2 = i3 \/ i1 = i3 THEN st
    ELSE LET plane == from_points(pts[i1 + 1], pts[i2 + 1], pts[i3 + 1])
             inliers == count_inliers(plane, pts, thresh)
         IN IF inliers > st.max_inliers
            THEN [best_plane |-> Some(plane), max_inliers |-> inliers]
            ELSE st

---------------------------------------------------------------------------
(* convert_splat_to_mesh (lib.rs 38-63) and reconstruct_mesh (mesh.rs 37-64) *)

EmptyMesh == [vertices |-> <<>>, indices |-> <<>>]

\* locals of the running reconstructor
NavLocals(fn, pts, points) ==
    [fn |-> fn, pts |-> pts, points |-> points, oriented |-> <<>>, iter |-> 0,
     best_plane |-> None, max_inliers |-> 0,
     up |-> Zero3, tangent |-> Zero3, bitangent |-> Zero3,
     min_u |-> 0, min_v |-> 0, cell_size |-> 0, cols |-> 0, rows |-> 0,
     accum |-> <<>>, heights |-> <<>>, row |-> 0, col |-> 0, vmap |-> <<>>]

\* the positions of all samples, NaN ones included
p_coords_all(points) == [i \in DOMAIN points |-> points[i].point]

\* mesh.rs 41-48: the positions (and normals) of the samples with no NaN coordinate
p_coords(points) ==
    LET Keep(i) == ~IsNaN(points[i].point)
    IN SelectIdx([i \in DOMAIN points |-> points[i].point], Keep, 1)

p_normals(points) ==
    LET Keep(i) == ~IsNaN(points[i].point)
    IN SelectIdx([i \in DOMAIN points |-> points[i].normal], Keep, 1)

PointsOf(points) == [i \in DOMAIN points |-> points[i].point]

\* the sample list reconstruct_mesh hands to reconstruct_voxel_navmesh (mesh.rs 59)
navmesh_input(points) == points

\* mesh.rs 37-64 (called at lib.rs 47)
reconstruct_mesh ==
    /\ pc = "parsed"
    /\ LET pcs == p_coords(splats)
       IN IF pcs = <<>>
          THEN /\ mesh' = EmptyMesh
               /\ pc' = "mesh_ready"
               /\ nav' = nav
               /\ calls' = calls \cup {[fn |-> "reconstruct_mesh", pts |-> PointsOf(splats)]}
          ELSE IF settings.mode = 1
          THEN /\ calls' = calls \cup {[fn |-> "reconstruct_mesh", pts |-> PointsOf(splats)],
                                       [fn |-> "reconstruct_plane_ransac", pts |-> pcs]}
               /\ nav' = NavLocals("plane", pcs, <<>>)
               /\ IF Len(pcs) < 3
                  THEN mesh' = EmptyMesh /\ pc' = "mesh_ready"
                  ELSE mesh' = mesh /\ pc' = "plane_ransac"
          ELSE IF settings.mode = 2
          THEN /\ calls' = calls \cup {[fn |-> "reconstruct_mesh", pts |-> PointsOf(splats)],
                                       [fn |-> "reconstruct_voxel_navmesh",
                                        pts |-> PointsOf(navmesh_input(splats))]}
               /\ nav' = NavLocals("navmesh", <<>>, navmesh_input(splats))
               /\ mesh' = mesh
               /\ pc' = "nav_filter"
          ELSE /\ calls' = calls \cup {[fn |-> "reconstruct_mesh", pts |-> PointsOf(splats)],
                                       [fn |-> "reconstruct_poisson", pts |-> pcs]}
               /\ nav' = nav
               /\ mesh' = mesh
               /\ pc' = "poisson"
    /\ UNCHANGED <<data, settings, splats, ret, vertices, indices, cc, prev>>

\* lib.rs 48-62: the MeshResult returned
MeshResult(m) ==
    [tag |-> "ok", vertices |-> m.vertices, indices |-> m.indices,
     vertex_count |-> Len(m.vertices) \div 3, face_count |-> Len(m.indices) \div 3]

convert_return ==
    /\ pc = "mesh_ready"
    /\ ret' = MeshResult(mesh)
    /\ pc' = "done"
    /\ UNCHANGED <<data, settings, splats, calls, nav, vertices, indices, cc, mesh, prev>>

---------------------------------------------------------------------------
(* reconstruct_poisson, mesh.rs 665-689: the solver is an external library;  *)
(* its mesh is returned verbatim                                            *)

PoissonMeshes ==
    {EmptyMesh, [vertices |-> <<0, 0, 0, 100, 0, 0, 0, 100, 0>>, indices |-> <<0, 1, 2>>]}

reconstruct_poisson ==
    /\ pc = "poisson"
    /\ \E m \in PoissonMeshes : mesh' = m
    /\ pc' = "mesh_ready"
    /\ UNCHANGED <<data, settings, splats, calls, ret, nav, vertices, indices, cc, prev>>

---------------------------------------------------------------------------
(* reconstruct_plane_ransac and generate_plane_mesh, mesh.rs 530-663 *)

\* tangent seed and Gram-Schmidt (mesh.rs 196-198, 580-586): |n.x| < 0.9
basis_tangent(n) ==
    LET seed == IF 10 * Abs(n[1]) < 9 THEN <<1, 0, 0>> ELSE <<0, 1, 0>>
    IN Normalize(VSub(seed, VScale(Dot(n, seed), n)))

basis_bitangent(n) == Cross(n, basis_tangent(n))

\* mesh.rs 544-564: one RANSAC iteration
plane_ransac_trial ==
    /\ pc = "plane_ransac"
    /\ nav.iter < Min2(plane_iterations, RansacIters)
    /\ \E i1, i2, i3 \in 0..(Len(nav.pts) - 1) :
         LET st == ransac_trial([best_plane |-> nav.best_plane, max_inliers |-> nav.max_inliers],
                                nav.pts, plane_threshold, i1, i2, i3)
         IN nav' = [nav EXCEPT !.iter = @ + 1, !.best_plane = st.best_plane,
                               !.max_inliers = st.max_inliers]
    /\ UNCHANGED <<pc, data, settings, splats, calls, ret, vertices, indices, cc, mesh, prev>>

\* a quad builder that pushes the inliers themselves as vertices
generate_plane_mesh_inliers(plane, points, threshold) ==
    LET Keep(i) == is_inlier(plane, points[i], threshold)
    IN [vertices |-> FlattenSeq(SelectIdx(points, Keep, 1)),
        indices |-> <<0, 1, 2, 0, 2, 3>>]

\* mesh.rs 576-663
generate_plane_mesh(plane, points, threshold) ==
    LET normal == plane_normal(plane)
        tangent == basis_tangent(normal)
        bitangent == basis_bitangent(normal)
        inl == {i \in DOMAIN points : is_inlier(plane, points[i], threshold)}
        us == {Dot(points[i], tangent) : i \in inl}
        vs == {Dot(points[i], bitangent) : i \in inl}
        corners_uv == << <<SetMin(us), SetMin(vs)>>, <<SetMax(us), SetMin(vs)>>,
                         <<SetMax(us), SetMax(vs)>>, <<SetMin(us), SetMax(vs)>> >>
        p_rec(c) == VSub(VAdd(VScale(c[1], tangent), VScale(c[2], bitangent)),
                         VScale(plane_d(plane), normal))
    IN IF inl = {} THEN EmptyMesh
       ELSE [vertices |-> FlattenSeq([k \in 1..4 |-> p_rec(corners_uv[k])]),
             indices |-> <<0, 1, 2, 0, 2, 3>>]

\* mesh.rs 566-573: after the loop
plane_ransac_done ==
    /\ pc = "plane_ransac"
    /\ nav.iter = Min2(plane_iterations, RansacIters)
    /\ mesh' = IF nav.best_plane.some
               THEN generate_plane_mesh(nav.best_plane.v, nav.pts, plane_threshold)
               ELSE EmptyMesh
    /\ pc' = "mesh_ready"
    /\ UNCHANGED <<data, settings, splats, calls, ret, nav, vertices, indices, cc, prev>>

---------------------------------------------------------------------------
(* reconstruct_voxel_navmesh, mesh.rs 66-422 *)

\* quarter turns about the axes; settings.rotation holds Euler angles in
\* quarter turns <<roll, pitch, yaw>>
RECURSIVE RotX(_, _)
RotX(k, a) == IF k = 0 THEN a ELSE RotX(k - 1, <<a[1], -a[3], a[2]>>)
RECURSIVE RotY(_, _)
RotY(k, a) == IF k = 0 THEN a ELSE RotY(k - 1, <<a[3], a[2], -a[1]>>)
RECURSIVE RotZ(_, _)
RotZ(k, a) == IF k = 0 THEN a ELSE RotZ(k - 1, <<-a[2], a[1], a[3]>>)

\* UnitQuaternion::from_euler_angles(rot[0], rot[1], rot[2]) applied to a
\* vector (mesh.rs 88-95, 110-113): roll about X first, then pitch, then yaw
rot_apply(rot, a) ==
    IF ~rot.some THEN a
    ELSE IF IsNaN(a) THEN NaN
    ELSE RotZ(rot.v[3], RotY(rot.v[2], RotX(rot.v[1], a)))

\* mesh.rs 116-131: TRUE when the region filter discards the oriented point;
\* every comparison with a NaN coordinate is false
region_discards(st, pt) ==
    /\ st.region_min.some /\ st.region_max.some
    /\ ~IsNaN(pt)
    /\ LET b == <<pt[1], -pt[2], pt[3]>>
       IN \E k \in 1..3 : b[k] < st.region_min.v[k] \/ b[k] > st.region_max.v[k]

\* mesh.rs 134-137
floater_discards(st, p) ==
    \/ p.opacity <= unwrap_or(st.min_alpha, default_min_alpha)
    \/ \E k \in 1..3 : p.scale[k] >= unwrap_or(st.max_scale, default_max_scale)

\* mesh.rs 105-145
oriented_points(st, points) ==
    LET Keep(i) == /\ ~region_discards(st, rot_apply(st.rotation, points[i].point))
                   /\ ~floater_discards(st, points[i])
    IN SelectIdx([i \in DOMAIN points |->
                    [point |-> rot_apply(st.rotation, points[i].point),
                     normal |-> rot_apply(st.rotation, points[i].normal),
                     scale |-> points[i].scale, opacity |-> points[i].opacity]],
                 Keep, 1)

\* mesh.rs 66-157: settings, orientation, region and floater filters
nav_filter ==
    /\ pc = "nav_filter"
    /\ LET op == oriented_points(settings, nav.points)
       IN IF nav.points = <<>> \/ op = <<>>
          THEN /\ mesh' = EmptyMesh
               /\ pc' = "mesh_ready"
               /\ nav' = [nav EXCEPT !.oriented = op]
          ELSE /\ mesh' = mesh
               /\ pc' = "nav_ransac"
               /\ nav' = [nav EXCEPT !.oriented = op, !.pts = PointsOf(op)]
    /\ UNCHANGED <<data, settings, splats, calls, ret, vertices, indices, cc, prev>>

\* number of trials the ground RANSAC runs: none unless n > 3 (mesh.rs 165)
nav_trials(n) == IF n > 3 THEN Min2(nav_iterations, RansacIters) ELSE 0

\* mesh.rs 166-181: one RANSAC iteration
nav_ransac_trial ==
    /\ pc = "nav_ransac"
    /\ nav.iter < nav_trials(Len(nav.pts))
    /\ \E i1, i2, i3 \in 0..(Len(nav.pts) - 1) :
         LET st == ransac_trial([best_plane |-> nav.best_plane, max_inliers |-> nav.max_inliers],
                                nav.pts, unwrap_or(settings.ransac_thresh, default_ransac_thresh),
                                i1, i2, i3)
         IN nav' = [nav EXCEPT !.iter = @ + 1, !.best_plane = st.best_plane,
                               !.max_inliers = st.max_inliers]
    /\ UNCHANGED <<pc, data, settings, splats, calls, ret, vertices, indices, cc, mesh, prev>>

\* mesh.rs 186-193
ground_up(best_plane) ==
    IF best_plane.some
    THEN (IF plane_normal(best_plane.v)[2] < 0 THEN VNeg(plane_normal(best_plane.v))
          ELSE plane_normal(best_plane.v))
    ELSE <<0, 1, 0>>

\* mesh.rs 219-226: cell size from the projected bounds
grid_cell_size(width, depth, voxel_target) ==
    Clamp(ISqrt((width * depth) \div voxel_target), min_cell_size, max_cell_size)

\* mesh.rs 184-233: up, basis, projected bounds and grid.  f64::min and
\* f64::max skip NaN; with no finite sample the bounds stay at MAX and MIN,
\* the width is -inf and `as usize` saturates to 0 columns and rows.
nav_grid ==
    /\ pc = "nav_ransac"
    /\ nav.iter = nav_trials(Len(nav.pts))
    /\ LET up == ground_up(nav.best_plane)
           tangent == basis_tangent(up)
           bitangent == basis_bitangent(up)
           fin == {i \in DOMAIN nav.oriented : ~IsNaN(nav.oriented[i].point)}
           us == {Dot(nav.oriented[i].point, tangent) : i \in fin}
           vs == {Dot(nav.oriented[i].point, bitangent) : i \in fin}
           width == SetMax(us) - SetMin(us)
           depth == SetMax(vs) - SetMin(vs)
           cs == IF fin = {} THEN max_cell_size
                 ELSE grid_cell_size(width, depth,
                                     unwrap_or(settings.voxel_target, default_voxel_target))
           cols == IF fin = {} THEN 0 ELSE CeilDiv(width, cs)
           rows == IF fin = {} THEN 0 ELSE CeilDiv(depth, cs)
       IN nav' = [nav EXCEPT !.up = up, !.tangent = tangent, !.bitangent = bitangent,
                             !.min_u = IF fin = {} THEN 0 ELSE SetMin(us),
                             !.min_v = IF fin = {} THEN 0 ELSE SetMin(vs),
                             !.cell_size = cs, !.cols = cols, !.rows = rows,
                             !.accum = [i \in 1..((cols + 1) * (rows + 1)) |->
                                          [sum_h |-> 0, total_w |-> 0, nan |-> FALSE]]]
    /\ pc' = "nav_splat"
    /\ UNCHANGED <<data, settings, splats, calls, ret, vertices, indices, cc, mesh, prev>>

\* exp(-0.5 * dist_sq) in ten-thousandths, for a sample on a grid corner
\* (mesh.rs 279-282)
Falloff(d2) ==
    CASE d2 = 0 -> 10000 [] d2 = 1 -> 6065 [] d2 = 2 -> 3679 [] d2 = 4 -> 1353
      [] d2 = 5 -> 821 [] d2 = 8 -> 183 [] d2 = 9 -> 111 [] d2 = 10 -> 67
      [] d2 = 13 -> 15 [] d2 = 18 -> 1 [] OTHER -> 0

\* mesh.rs 263-265
splat_radius(p, cs) ==
    Clamp(CeilDiv(p.scale[1] + p.scale[2] + p.scale[3], 3 * cs), 0, max_radius)

\* mesh.rs 240-241: the sample contributes (its normal is aligned with up)
splat_aligned(st, p, up) ==
    ~(100 * Abs(Dot(p.normal, up)) < unwrap_or(st.normal_align, default_normal_align))

\* mesh.rs 243-253: the cell of the sample; NaN `as isize` is 0
splat_col(n, p) ==
    IF IsNaN(p.point) THEN 0 ELSE (Dot(p.point, n.tangent) - n.min_u) \div n.cell_size
splat_row(n, p) ==
    IF IsNaN(p.point) THEN 0 ELSE (Dot(p.point, n.bitangent) - n.min_v) \div n.cell_size

\* mesh.rs 267-274: the sample reaches corner (c, r)
splat_reaches(n, p, c, r) ==
    /\ Abs(c - splat_col(n, p)) <= splat_radius(p, n.cell_size)
    /\ Abs(r - splat_row(n, p)) <= splat_radius(p, n.cell_size)

\* mesh.rs 260, 279-284: weight of the sample at corner (c, r), in millionths
splat_weight(n, p, c, r) ==
    p.opacity * Abs(Dot(p.normal, n.up)) * Abs(Dot(p.normal, n.up))
      * Falloff((c - splat_col(n, p)) * (c - splat_col(n, p))
                + (r - splat_row(n, p)) * (r - splat_row(n, p)))

RECURSIVE SumFn(_, _)
SumFn(S, f) ==
    IF S = {} THEN 0
    ELSE LET x == CHOOSE y \in S : TRUE IN f[x] + SumFn(S \ {x}, f)
SumOver(S, F(_)) == SumFn(S, [x \in S |-> F(x)])

\* mesh.rs 238-290: the accumulator of corner (c, r) after the splat loop
splat_accum(st, n, c, r) ==
    LET hit == {i \in DOMAIN n.oriented :
                  /\ splat_aligned(st, n.oriented[i], n.up)
                  /\ splat_reaches(n, n.oriented[i], c, r)}
        W(i) == splat_weight(n, n.oriented[i], c, r)
        HW(i) == Dot(n.oriented[i].point, n.up) * splat_weight(n, n.oriented[i], c, r)
        finite == {i \in hit : ~IsNaN(n.oriented[i].point)}
    IN [sum_h |-> SumOver(finite, HW), total_w |-> SumOver(finite, W),
        nan |-> finite # hit]

nav_splat ==
    /\ pc = "nav_splat"
    /\ nav' = [nav EXCEPT !.accum = [i \in 1..((nav.cols + 1) * (nav.rows + 1)) |->
                  splat_accum(settings, nav, (i - 1) % (nav.cols + 1), (i - 1) \div (nav.cols + 1))]]
    /\ pc' = "nav_heights"
    /\ UNCHANGED <<data, settings, splats, calls, ret, vertices, indices, cc, mesh, prev>>

\* a height for every corner that gathered any weight at all
vertex_height_any(a) ==
    IF ~a.nan /\ a.total_w > 0 THEN Some(a.sum_h \div a.total_w) ELSE None

\* mesh.rs 298-304: NaN >= 0.01 is false
vertex_height(a) ==
    IF ~a.nan /\ a.total_w >= min_vertex_weight THEN Some(a.sum_h \div a.total_w) ELSE None

nav_heights ==
    /\ pc = "nav_heights"
    /\ nav' = [nav EXCEPT !.heights = [i \in DOMAIN nav.accum |-> vertex_height(nav.accum[i])],
                          !.row = 0, !.col = 0, !.vmap = <<>>]
    /\ vertices' = <<>>
    /\ indices' = <<>>
    /\ pc' = "emit"
    /\ UNCHANGED <<data, settings, splats, calls, ret, cc, mesh, prev>>

---------------------------------------------------------------------------
(* face emission, mesh.rs 308-407 *)

min_face_up_dot == 70

\* grid index of corner (col, row), mesh.rs 324-327
corner_idx(n, col, row) == row * (n.cols + 1) + col

\* mesh.rs 336-344: position of corner (col, row) at height h
corner_pos(n, col, row, h) ==
    VAdd(VAdd(VScale(n.min_u + col * n.cell_size, n.tangent),
              VScale(n.min_v + row * n.cell_size, n.bitangent)),
         VScale(h, n.up))

\* mesh.rs 364-374: the unit normal's dot with up is at least thr hundredths
faces_up(nrm, up, thr) ==
    /\ Dot(nrm, up) >= 0
    /\ 10000 * Dot(nrm, up) * Dot(nrm, up) >= thr * thr * Dot(nrm, nrm)

\* mesh.rs 329-374: what the loop body decides for cell (col, row)
cell_verdict(n, col, row) ==
    LET h00 == n.heights[corner_idx(n, col, row) + 1]
        h10 == n.heights[corner_idx(n, col + 1, row) + 1]
        h11 == n.heights[corner_idx(n, col + 1, row + 1) + 1]
        h01 == n.heights[corner_idx(n, col, row + 1) + 1]
    IN IF ~(h00.some /\ h10.some /\ h11.some /\ h01.some) THEN "coverage"
       ELSE LET p00 == corner_pos(n, col, row, h00.v)
                p10 == corner_pos(n, col + 1, row, h10.v)
                p11 == corner_pos(n, col + 1, row + 1, h11.v)
                p01 == corner_pos(n, col, row + 1, h01.v)
                normal_a == Cross(VSub(p10, p00), VSub(p11, p00))
                normal_b == Cross(VSub(p11, p00), VSub(p01, p00))
            IN IF normal_a = Zero3 \/ normal_b = Zero3 THEN "degenerate"
               ELSE IF ~faces_up(normal_a, n.up, min_face_up_dot)
                       \/ ~faces_up(normal_b, n.up, min_face_up_dot) THEN "steep"
               ELSE "emit"

\* a new vertex at every use of a corner, the map entry overwritten
get_or_create_vertex_fresh(b, grid_idx, pos) ==
    [vertices |-> b.vertices \o <<pos[1], -pos[2], pos[3]>>,
     vmap |-> (grid_idx :> (Len(b.vertices) \div 3)) @@ b.vmap,
     idx |-> Len(b.vertices) \div 3]

\* mesh.rs 377-389: get_or_create_vertex on the buffers b = [vertices, vmap]
get_or_create_vertex(b, grid_idx, pos) ==
    IF grid_idx \in DOMAIN b.vmap
    THEN [vertices |-> b.vertices, vmap |-> b.vmap, idx |-> b.vmap[grid_idx]]
    ELSE [vertices |-> b.vertices \o <<pos[1], -pos[2], pos[3]>>,
          vmap |-> (grid_idx :> (Len(b.vertices) \div 3)) @@ b.vmap,
          idx |-> Len(b.vertices) \div 3]

\* a cell whose second triangle repeats the corners of the first
quad_indices_repeated(i00, i10, i11, i01) == <<i00, i11, i10, i00, i10, i11>>

\* mesh.rs 391-403: the six indices pushed for an emitted cell
quad_indices(i00, i10, i11, i01) == <<i00, i11, i10, i00, i01, i11>>

\* mesh.rs 321-406: one iteration of the loops over row and col
emit_cell ==
    /\ pc = "emit"
    /\ nav.row < nav.rows /\ nav.cols > 0
    /\ LET col == nav.col
           row == nav.row
           hs(c, r) == nav.heights[corner_idx(nav, c, r) + 1].v
           b0 == [vertices |-> vertices, vmap |-> nav.vmap]
           b1 == get_or_create_vertex(b0, corner_idx(nav, col, row),
                                      corner_pos(nav, col, row, hs(col, row)))
           b2 == get_or_create_vertex(b1, corner_idx(nav, col + 1, row),
                                      corner_pos(nav, col + 1, row, hs(col + 1, row)))
           b3 == get_or_create_vertex(b2, corner_idx(nav, col + 1, row + 1),
                                      corner_pos(nav, col + 1, row + 1, hs(col + 1, row + 1)))
           b4 == get_or_create_vertex(b3, corner_idx(nav, col, row + 1),
                                      corner_pos(nav, col, row + 1, hs(col, row + 1)))
           nextcol == IF col + 1 = nav.cols THEN 0 ELSE col + 1
           nextrow == IF col + 1 = nav.cols THEN row + 1 ELSE row
       IN IF cell_verdict(nav, col, row) = "emit"
          THEN /\ vertices' = b4.vertices
               /\ indices' = indices \o quad_indices(b1.idx, b2.idx, b3.idx, b4.idx)
               /\ nav' = [nav EXCEPT !.vmap = b4.vmap, !.col = nextcol, !.row = nextrow]
          ELSE /\ vertices' = vertices
               /\ indices' = indices
               /\ nav' = [nav EXCEPT !.col = nextcol, !.row = nextrow]
    /\ UNCHANGED <<pc, data, settings, splats, calls, ret, cc, mesh, prev>>

---------------------------------------------------------------------------
(* filter_largest_connected_component, mesh.rs 425-528 *)

NumFaces(idx) == Len(idx) \div 3
NumVerts(verts) == Len(verts) \div 3

\* indices.chunks(3), face f (0-based)
Face(idx, f) == <<idx[3 * f + 1], idx[3 * f + 2], idx[3 * f + 3]>>
FaceVerts(idx, f) == {idx[3 * f + 1], idx[3 * f + 2], idx[3 * f + 3]}

\* vertex_to_faces[vi]: the faces that touch vertex vi
vertex_to_faces(idx, vi) == {f \in 0..(NumFaces(idx) - 1) : vi \in FaceVerts(idx, f)}

\* face_neighbors[f]: the HashSet of other faces sharing a vertex with f
face_neighbors(idx, f) ==
    UNION {vertex_to_faces(idx, vi) : vi \in FaceVerts(idx, f)} \ {f}

\* the first of the equally largest components
largest_component_first(sizes) ==
    IF sizes = <<>> THEN 0
    ELSE (CHOOSE i \in DOMAIN sizes :
              /\ \A j \in DOMAIN sizes : sizes[j] <= sizes[i]
              /\ \A j \in DOMAIN sizes : j < i => sizes[j] < sizes[i]) - 1

\* component_sizes.iter().enumerate().max_by_key(|&(_, size)| size) (mesh.rs
\* 484-488): Rust's max_by_key returns the LAST element among equally
\* maximum ones; unwrap_or(0) covers the empty vector.
largest_component(sizes) ==
    IF sizes = <<>> THEN 0
    ELSE (CHOOSE i \in DOMAIN sizes :
              /\ \A j \in DOMAIN sizes : sizes[j] <= sizes[i]
              /\ \A j \in DOMAIN sizes : j > i => sizes[j] < sizes[i]) - 1

\* a rebuild loop that keeps every component from the largest on
KeptFaces_from(idx, comp, largest) ==
    {f \in 0..(NumFaces(idx) - 1) : comp[f + 1] >= largest}

\* faces kept by the rebuild loop (mesh.rs 497-504), in buffer order
KeptFaces(idx, comp, largest) ==
    {f \in 0..(NumFaces(idx) - 1) : comp[f + 1] = largest}

new_indices(idx, comp, largest) ==
    FlattenSeq([k \in 1..Cardinality(KeptFaces(idx, comp, largest)) |->
                  Face(idx, SortedSeq(KeptFaces(idx, comp, largest))[k])])

used_verts(idx, comp, largest) == Range(new_indices(idx, comp, largest))

\* the members of s in the order of their first occurrence
RECURSIVE FirstUses(_)
FirstUses(s) ==
    IF s = <<>> THEN <<>>
    ELSE LET front == FirstUses(SubSeq(s, 1, Len(s) - 1))
         IN IF s[Len(s)] \in Range(front) THEN front ELSE Append(front, s[Len(s)])

\* the used vertices left in the order the faces met them, the sort omitted
sorted_verts_unsorted(idx, comp, largest) == FirstUses(new_indices(idx, comp, largest))

\* sorted_verts, mesh.rs 510-511
sorted_verts(idx, comp, largest) == SortedSeq(used_verts(idx, comp, largest))

\* an index left as it was before compaction
old_to_new_stale(sv, old) == old

\* old_to_new.get(&old).unwrap_or(&0), mesh.rs 513-525
old_to_new(sv, old) ==
    IF old \in Range(sv) THEN (CHOOSE k \in DOMAIN sv : sv[k] = old) - 1 ELSE 0

new_vertices(verts, sv) ==
    FlattenSeq([k \in DOMAIN sv |->
                  <<verts[3 * sv[k] + 1], verts[3 * sv[k] + 2], verts[3 * sv[k] + 3]>>])

remapped_indices(ni, sv) == [k \in DOMAIN ni |-> old_to_new(sv, ni[k])]

\* mesh.rs 456-458: the flood fill's locals before the first start_face
cc_init(idx) ==
    [face_component |-> [f \in 1..NumFaces(idx) |-> -1],
     component_sizes |-> <<>>,
     current_component |-> 0,
     start_face |-> 0,
     queue |-> <<>>,
     size |-> 0,
     pushes |-> [f \in 1..NumFaces(idx) |-> 0]]

\* mesh.rs 460-467: one iteration of `for start_face in 0..num_faces`
cc_scan(c) ==
    IF c.face_component[c.start_face + 1] >= 0
    THEN [c EXCEPT !.start_face = @ + 1]
    ELSE [c EXCEPT !.queue = <<c.start_face>>,
                   !.face_component[c.start_face + 1] = c.current_component,
                   !.pushes[c.start_face + 1] = @ + 1,
                   !.size = 0]

\* every neighbour of the queue's head, labelled or not
cc_fresh_any(c, idx) == face_neighbors(idx, Head(c.queue))

\* the neighbours of the queue's head that carry no label yet
cc_fresh(c, idx) ==
    {n \in face_neighbors(idx, Head(c.queue)) : c.face_component[n + 1] < 0}

\* mesh.rs 469-477: one iteration of `while let Some(face) = queue.pop_front()`,
\* the unlabelled neighbours met in the order `order`
cc_pop(c, idx, order) ==
    [c EXCEPT !.queue = Tail(c.queue) \o order,
              !.size = @ + 1,
              !.face_component = [f \in DOMAIN @ |->
                  IF (f - 1) \in Range(order) THEN c.current_component ELSE @[f]],
              !.pushes = [f \in DOMAIN @ |->
                  IF (f - 1) \in Range(order) THEN @[f] + 1 ELSE @[f]]]

\* mesh.rs 479-480: the queue is empty, the component is complete
cc_end(c) ==
    [c EXCEPT !.component_sizes = Append(@, c.size),
              !.current_component = @ + 1,
              !.start_face = @ + 1]

\* mesh.rs 483-527: pick the largest component, rebuild and compact
cc_rebuild(verts, idx, c) ==
    LET largest == largest_component(c.component_sizes)
        ni == new_indices(idx, c.face_component, largest)
        sv == sorted_verts(idx, c.face_component, largest)
    IN [vertices |-> new_vertices(verts, sv), indices |-> remapped_indices(ni, sv)]

\* mesh.rs 426-428 and 430-458: entry; adjacency is a function of indices
CcEntry ==
    /\ pc = "cc_entry"
    /\ IF indices = <<>>
       THEN /\ mesh' = [vertices |-> vertices, indices |-> indices]
            /\ pc' = "cc_done"
            /\ cc' = cc
       ELSE /\ cc' = cc_init(indices)
            /\ pc' = "cc_scan"
            /\ mesh' = mesh
    /\ UNCHANGED <<data, settings, splats, calls, ret, nav, vertices, indices, prev>>

CcScan ==
    /\ pc = "cc_scan"
    /\ cc.start_face < NumFaces(indices)
    /\ cc' = cc_scan(cc)
    /\ pc' = IF cc.face_component[cc.start_face + 1] >= 0 THEN "cc_scan" ELSE "cc_bfs"
    /\ UNCHANGED <<data, settings, splats, calls, ret, nav, vertices, indices, mesh, prev>>

\* face_neighbors[face] was collected from a HashSet (mesh.rs 452): its
\* order is arbitrary
CcBfsPop ==
    /\ pc = "cc_bfs"
    /\ cc.queue # <<>>
    /\ \E order \in Perms(cc_fresh(cc, indices)) : cc' = cc_pop(cc, indices, order)
    /\ pc' = "cc_bfs"
    /\ UNCHANGED <<data, settings, splats, calls, ret, nav, vertices, indices, mesh, prev>>

CcBfsEnd ==
    /\ pc = "cc_bfs"
    /\ cc.queue = <<>>
    /\ cc' = cc_end(cc)
    /\ pc' = "cc_scan"
    /\ UNCHANGED <<data, settings, splats, calls, ret, nav, vertices, indices, mesh, prev>>

CcRebuild ==
    /\ pc = "cc_scan"
    /\ cc.start_face = NumFaces(indices)
    /\ mesh' = cc_rebuild(vertices, indices, cc)
    /\ pc' = "cc_done"
    /\ UNCHANGED <<data, settings, splats, calls, ret, nav, vertices, indices, cc, prev>>

filter_largest_connected_component == CcEntry \/ CcScan \/ CcBfsPop \/ CcBfsEnd \/ CcRebuild

\* the whole flood fill run to its end, neighbours met in ascending order
RECURSIVE cc_run(_, _)
cc_run(c, idx) ==
    IF c.queue # <<>> THEN cc_run(cc_pop(c, idx, SortedSeq(cc_fresh(c, idx))), idx)
    ELSE IF c.size > 0 THEN cc_run([cc_end(c) EXCEPT !.size = 0], idx)
    ELSE IF c.start_face < NumFaces(idx) THEN cc_run(cc_scan(c), idx)
    ELSE c

\* filter_largest_connected_component as one call (mesh.rs 425-528)
filter_mesh(verts, idx) ==
    IF idx = <<>> THEN [vertices |-> verts, indices |-> idx]
    ELSE cc_rebuild(verts, idx, cc_run(cc_init(idx), idx))

\* mesh.rs 407-421: the loops are over; the mesh goes through the
\* connectivity filter and is returned
emit_done ==
    /\ pc = "emit"
    /\ nav.row >= nav.rows \/ nav.cols = 0
    /\ mesh' = filter_mesh(vertices, indices)
    /\ pc' = "mesh_ready"
    /\ UNCHANGED <<data, settings, splats, calls, ret, nav, vertices, indices, cc, prev>>

---------------------------------------------------------------------------
(* Spec: one call of convert_splat_to_mesh *)

\* MeshSettings (lib.rs 28-36, and the rotation and region fields mesh.rs reads)
DefaultSettings(mode) ==
    [mode |-> mode, voxel_target |-> None, min_alpha |-> None, max_scale |-> None,
     normal_align |-> None, ransac_thresh |-> None,
     rotation |-> None, region_min |-> None, region_max |-> None]

\* a region box that holds the lattice columns 0 and 1 only
RegionSettings ==
    [DefaultSettings(2) EXCEPT !.region_min = Some(<<0, -5, 0>>),
                               !.region_max = Some(<<5, 5, 5>>)]

\* a quarter turn about X before ground detection
RotatedSettings == [DefaultSettings(2) EXCEPT !.rotation = Some(<<1, 0, 0>>)]

\* quaternions <<w, x, y, z>> that turn the Z axis to +Y and leave it at +Z
QuatToY == <<1, -1, 0, 0>>
QuatToZ == <<1, 0, 0, 0>>

\* the samples a file may hold: scene "floor" is a lattice on the plane y = 0
\* with normals +Y, scene "wall" the same lattice on the plane z = 0 with
\* normals +Z; spacing is the minimum cell size
LatticePoint(scene, i, j) ==
    [position |-> IF scene = "floor" THEN <<min_cell_size * i, 0, min_cell_size * j>>
                  ELSE <<min_cell_size * i, min_cell_size * j, 0>>,
     rotation |-> IF scene = "floor" THEN QuatToY ELSE QuatToZ,
     scale |-> <<5, 5, 5>>, opacity |-> 100]

\* the lattice of a scene: five columns by two rows of points
LatticeCols == 0..4
LatticeRows == 0..1

\* kinds below NumLattice are lattice points, row by row; then a sample
\* with a NaN coordinate and a transparent floater
NumLattice == Cardinality(LatticeCols) * Cardinality(LatticeRows)
SampleKind(scene, k) ==
    IF k < NumLattice
    THEN LatticePoint(scene, k % Cardinality(LatticeCols), k \div Cardinality(LatticeCols))
    ELSE IF k = NumLattice THEN [LatticePoint(scene, 0, 0) EXCEPT !.position = NaN]
    ELSE [LatticePoint(scene, 0, 0) EXCEPT !.opacity = 3]

SampleLists(scene) ==
    {[k \in 1..Cardinality(S) |-> SampleKind(scene, SortedSeq(S)[k])] :
       S \in {T \in SUBSET (0..(NumLattice + 1)) : Cardinality(T) <= MaxSplats}}

\* byte buffers: the first bytes, and what the two external parsers answer
Buffer(bytes, spz, ply, samples) ==
    [bytes |-> bytes, body |-> [spz |-> spz, ply |-> ply, samples |-> samples]]

RECURSIVE SeqsUpTo(_, _)
SeqsUpTo(A, n) ==
    IF n = 0 THEN {<<>>}
    ELSE SeqsUpTo(A, n - 1) \cup {Append(s, a) : s \in {t \in SeqsUpTo(A, n - 1) : Len(t) = n - 1}, a \in A}

\* well-formed files holding a scene: a floor as PLY, a wall as packed gaussians
SceneBuffers ==
    {Buffer(PlyMagic, "fail", "ok", l) : l \in SampleLists("floor")}
    \cup {Buffer(NGSP, "ok", "malformed", l) : l \in SampleLists("wall")}

\* every short byte prefix, with every answer the parser it reaches can give
HeadBuffers ==
    LET tiny == {<<>>, <<LatticePoint("floor", 0, 0)>>}
    IN UNION {IF is_ngsp(h)
              THEN {Buffer(h, "ok", "malformed", l) : l \in tiny} \cup {Buffer(h, "fail", "malformed", <<>>)}
              ELSE {Buffer(h, "fail", "malformed", <<>>)} :
                h \in SeqsUpTo({"N", "G", "S", "P"}, MaxHead)}
       \cup {Buffer(PlyMagic, "fail", "ok", l) : l \in tiny}
       \cup {Buffer(PlyMagic, "fail", a, <<>>) : a \in {"malformed", "novertex", "badpayload"}}

InitCall(d, st) ==
    /\ pc = "parse"
    /\ data = d /\ settings = st
    /\ splats = <<>> /\ calls = {} /\ ret = NoRet /\ nav = NoNav
    /\ vertices = <<>> /\ indices = <<>> /\ cc = NoCc
    /\ mesh = NoMesh /\ prev = NoMesh

Init ==
    \/ \E d \in SceneBuffers, m \in 0..2 : InitCall(d, DefaultSettings(m))
    \/ \E l \in SampleLists("floor"), st \in {RegionSettings, RotatedSettings} :
         InitCall(Buffer(NGSP, "ok", "malformed", l), st)
    \/ \E d \in HeadBuffers, m \in 0..2 : InitCall(d, DefaultSettings(m))

Next ==
    \/ parse_ply
    \/ reconstruct_mesh
    \/ reconstruct_poisson
    \/ plane_ransac_trial
    \/ plane_ransac_done
    \/ nav_filter
    \/ nav_ransac_trial
    \/ nav_grid
    \/ nav_splat
    \/ nav_heights
    \/ emit_cell
    \/ emit_done
    \/ convert_return

Spec == Init /\ [][Next]_vars

---------------------------------------------------------------------------
(* SpecTwice: the host calls convert_splat_to_mesh twice on the same       *)
(* buffer and settings                                                     *)

InitTwice ==
    \E l \in SampleLists("wall") :
        InitCall(Buffer(NGSP, "ok", "malformed", l), DefaultSettings(2))

\* the first call has returned; its result is kept and the call is repeated
call_again ==
    /\ pc = "done"
    /\ prev = NoMesh
    /\ prev' = ret
    /\ pc' = "parse"
    /\ splats' = <<>> /\ calls' = {} /\ ret' = NoRet /\ nav' = NoNav
    /\ vertices' = <<>> /\ indices' = <<>> /\ cc' = NoCc /\ mesh' = NoMesh
    /\ UNCHANGED <<data, settings>>

NextTwice ==
    \/ parse_ply \/ reconstruct_mesh
    \/ nav_filter \/ nav_ransac_trial \/ nav_grid \/ nav_splat \/ nav_heights
    \/ emit_cell \/ emit_done
    \/ convert_return
    \/ call_again

SpecTwice == InitTwice /\ [][NextTwice]_vars

---------------------------------------------------------------------------
(* SpecEmit: face emission and connectivity filter from the height field   *)
(* the splat stage leaves: up = +Y, a grid of at most MaxGrid x MaxGrid    *)
(* cells, corners at height 0 but for at most MaxRaised raised ones and    *)
(* at most MaxInvalid without coverage                                     *)

CellSizes == {5, 7}
RaisedHeights == {5}

\* the subsets of S of at most k elements
RECURSIVE SubsetsUpTo(_, _)
SubsetsUpTo(S, k) ==
    IF k = 0 THEN {{}}
    ELSE SubsetsUpTo(S, k - 1) \cup {T \cup {x} : T \in SubsetsUpTo(S, k - 1), x \in S}

EmitLocals(cols, rows, cs, heights) ==
    [NavLocals("navmesh", <<>>, <<>>) EXCEPT
        !.up = <<0, 1, 0>>, !.tangent = basis_tangent(<<0, 1, 0>>),
        !.bitangent = basis_bitangent(<<0, 1, 0>>),
        !.cell_size = cs, !.cols = cols, !.rows = rows, !.heights = heights]

InitEmit ==
    /\ pc = "emit"
    /\ \E cols \in 1..MaxGrid, rows \in 1..MaxGrid, cs \in CellSizes :
         \E inv \in SubsetsUpTo(1..((cols + 1) * (rows + 1)), MaxInvalid),
            hi \in SubsetsUpTo(1..((cols + 1) * (rows + 1)), MaxRaised),
            h \in RaisedHeights :
              /\ inv \cap hi = {}
              /\ nav = EmitLocals(cols, rows, cs,
                        [i \in 1..((cols + 1) * (rows + 1)) |->
                           IF i \in inv THEN None ELSE IF i \in hi THEN Some(h) ELSE Some(0)])
    /\ data = NoData /\ settings = DefaultSettings(2) /\ splats = <<>>
    /\ calls = {} /\ ret = NoRet /\ cc = NoCc
    /\ vertices = <<>> /\ indices = <<>>
    /\ mesh = NoMesh /\ prev = NoMesh

NextEmit == emit_cell \/ emit_done \/ convert_return

SpecEmit == InitEmit /\ [][NextEmit]_vars

---------------------------------------------------------------------------
(* SpecRansac: the trial loop of reconstruct_plane_ransac on a given point *)
(* list, the generator's output given as a stream of index triples        *)

\* four points with no three colinear, one of them 0.2 above the plane of
\* the others; and four coplanar points with three on a line
RansacScenes ==
    { << <<0, 0, 0>>, <<5, 0, 0>>, <<0, 0, 5>>, <<0, 20, 0>> >>,
      << <<0, 0, 0>>, <<5, 0, 0>>, <<10, 0, 0>>, <<0, 0, 5>> >> }

\* what three calls of rng.gen_range(0..n) may return: every triple of
\* distinct indices, and one triple for each way two indices can repeat
DrawTriples(n) ==
    {d \in [1..3 -> 0..(n - 1)] : d[1] # d[2] /\ d[2] # d[3] /\ d[1] # d[3]}
        \cup {<<0, 0, 1>>, <<0, 1, 1>>, <<1, 0, 1>>}

RngData(stream) == [rng |-> stream]

InitRansac ==
    /\ pc = "plane_ransac"
    /\ \E pts \in RansacScenes :
         /\ nav = NavLocals("plane", pts, <<>>)
         /\ \E stream \in [1..RansacIters -> DrawTriples(Len(pts))] :
              data = RngData(stream)
    /\ settings = DefaultSettings(1) /\ splats = <<>>
    /\ calls = {} /\ ret = NoRet /\ cc = NoCc
    /\ vertices = <<>> /\ indices = <<>>
    /\ mesh = NoMesh /\ prev = NoMesh

\* mesh.rs 544-564: one RANSAC iteration, gen_range returning the next
\* triple of the stream
plane_ransac_drawn ==
    /\ pc = "plane_ransac"
    /\ nav.iter < Len(data.rng)
    /\ LET d == data.rng[nav.iter + 1]
           st == ransac_trial([best_plane |-> nav.best_plane, max_inliers |-> nav.max_inliers],
                              nav.pts, plane_threshold, d[1], d[2], d[3])
       IN nav' = [nav EXCEPT !.iter = @ + 1, !.best_plane = st.best_plane,
                             !.max_inliers = st.max_inliers]
    /\ UNCHANGED <<pc, data, settings, splats, calls, ret, vertices, indices, cc, mesh, prev>>

NextRansac == plane_ransac_drawn

SpecRansac == InitRansac /\ [][NextRansac]_vars

----------------------------------------------------------------------------
(* SpecSplat: reconstruct_voxel_navmesh on floors of solid and faint samples *)

\* samples of a floor y = 0 with normals +Y on a lattice of five columns by
\* two rows: kinds below NumSplatSites are solid (opaque, one cell wide) at
\* any site, the others faint (opacity 0.12, two cells wide) in column 0
SplatCols == 5
SplatRows == 2
NumSplatSites == SplatCols * SplatRows
SplatSample(k) ==
    IF k < NumSplatSites
    THEN [point |-> <<min_cell_size * (k % SplatCols), 0, min_cell_size * (k \div SplatCols)>>,
          normal |-> <<0, 1, 0>>, scale |-> <<5, 5, 5>>, opacity |-> 100]
    ELSE [point |-> <<0, 0, min_cell_size * (k - NumSplatSites)>>,
          normal |-> <<0, 1, 0>>, scale |-> <<10, 10, 10>>, opacity |-> 12]

SplatLists ==
    {[i \in 1..Cardinality(S) |-> SplatSample(SortedSeq(S)[i])] :
       S \in SubsetsUpTo(0..(NumSplatSites + SplatRows - 1), MaxSamples)}

InitSplat ==
    /\ pc = "nav_filter"
    /\ \E l \in SplatLists : nav = NavLocals("navmesh", <<>>, l)
    /\ data = NoData /\ settings = DefaultSettings(2) /\ splats = <<>>
    /\ calls = {} /\ ret = NoRet /\ cc = NoCc
    /\ vertices = <<>> /\ indices = <<>>
    /\ mesh = NoMesh /\ prev = NoMesh

NextSplat ==
    \/ nav_filter
    \/ nav_ransac_trial
    \/ nav_grid
    \/ nav_splat
    \/ nav_heights
    \/ emit_cell
    \/ emit_done

SpecSplat == InitSplat /\ [][NextSplat]_vars

---------------------------------------------------------------------------
(* SpecFilter: filter_largest_connected_component on bounded inputs *)

\* a vertex buffer of nv vertices whose coordinates identify the vertex
MarkedVertices(nv) == [k \in 1..(3 * nv) |-> 10 * ((k - 1) \div 3) + ((k - 1) % 3)]

\* faces of the input buffers: any winding of vertices below nv
FaceTriples(nv) == {t \in [1..3 -> 0..(nv - 1)] : t[1] <= t[2] /\ t[2] <= t[3]}

InitFilter ==
    /\ pc = "cc_entry"
    /\ \E nv \in 1..MaxVerts, nf \in 0..MaxFaces :
         /\ vertices = MarkedVertices(nv)
         /\ \E fs \in [1..nf -> FaceTriples(nv)] : indices = FlattenSeq(fs)
    /\ data = NoData /\ settings = NoSettings /\ splats = <<>>
    /\ calls = {} /\ ret = NoRet /\ nav = NoNav /\ cc = NoCc
    /\ mesh = NoMesh /\ prev = NoMesh

NextFilter == filter_largest_connected_component

SpecFilter == InitFilter /\ [][NextFilter]_vars

---------------------------------------------------------------------------
(* Properties of the connectivity filter, checked under SpecFilter.  They  *)
(* are stated on the index buffers alone: components are the classes of    *)
(* the closure of "shares a vertex index", not the flood fill's labels.    *)

FacesOf(idx) == 0..((Len(idx) \div 3) - 1)

SharesVertex(idx, f, g) ==
    \E a \in 1..3, b \in 1..3 : idx[3 * f + a] = idx[3 * g + b]

RECURSIVE LinkedTo(_, _)
LinkedTo(idx, S) ==
    LET T == S \cup {g \in FacesOf(idx) : \E f \in S : SharesVertex(idx, f, g)}
    IN IF T = S THEN S ELSE LinkedTo(idx, T)

ComponentsOf(idx) == {LinkedTo(idx, {f}) : f \in FacesOf(idx)}

FaceGraphConnected(idx) ==
    \A f \in FacesOf(idx), g \in FacesOf(idx) : g \in LinkedTo(idx, {f})

LargestComponents(idx) ==
    {C \in ComponentsOf(idx) : \A D \in ComponentsOf(idx) : Cardinality(D) <= Cardinality(C)}

\* component ids grow with the component's first face
EarliestLargest(idx) ==
    CHOOSE C \in LargestComponents(idx) :
        \A D \in LargestComponents(idx) : SetMin(C) <= SetMin(D)

LatestLargest(idx) ==
    CHOOSE C \in LargestComponents(idx) :
        \A D \in LargestComponents(idx) : SetMin(D) <= SetMin(C)

\* the triangles of a mesh as triples of vertex coordinates, with multiplicity
Corner(verts, i) == <<verts[3 * i + 1], verts[3 * i + 2], verts[3 * i + 3]>>

TriangleAt(verts, idx, f) ==
    <<Corner(verts, idx[3 * f + 1]), Corner(verts, idx[3 * f + 2]),
      Corner(verts, idx[3 * f + 3])>>

\* the mesh m holds the faces C of (verts, idx), in buffer order, and no other
HoldsExactly(m, verts, idx, C) ==
    /\ Len(m.indices) = 3 * Cardinality(C)
    /\ \A k \in 1..Cardinality(C) :
         /\ \A a \in 1..3 : 3 * m.indices[3 * (k - 1) + a] + 3 <= Len(m.vertices)
         /\ TriangleAt(m.vertices, m.indices, k - 1)
              = TriangleAt(verts, idx, SortedSeq(C)[k])

\* C2: for an input with at least one face, the returned index buffer has at
\* least one face and any two returned faces are linked by a chain of
\* returned faces sharing vertex indices.
C2_OutputConnected ==
    (pc = "cc_done" /\ Len(indices) >= 3) =>
        /\ Len(mesh.indices) >= 3
        /\ FaceGraphConnected(mesh.indices)

\* a disconnected input was filtered down to a component of two faces
C2_Witness ==
    /\ pc = "cc_done"
    /\ ~FaceGraphConnected(indices)
    /\ Len(mesh.indices) = 6
    /\ FaceGraphConnected(mesh.indices)

\* C3 as amended: the filter returns exactly the triangles of the component
\* with the most faces; when several components share that maximum it keeps
\* the one with the HIGHEST component id, the one whose first face occurs
\* latest in the index buffer.
C3_KeepsLatestLargest ==
    (pc = "cc_done" /\ Len(indices) >= 3) =>
        HoldsExactly(mesh, vertices, indices, LatestLargest(indices))

\* C3 as stated: among equally largest components the one with the lowest
\* component id is kept.
C3_KeepsEarliestLargest ==
    (pc = "cc_done" /\ Len(indices) >= 3) =>
        HoldsExactly(mesh, vertices, indices, EarliestLargest(indices))

\* two components tie for the maximum; the later one was returned and
\* the earlier one was not
C3_Witness ==
    /\ pc = "cc_done"
    /\ Cardinality(LargestComponents(indices)) >= 2
    /\ Cardinality(ComponentsOf(indices)) = 3
    /\ HoldsExactly(mesh, vertices, indices, LatestLargest(indices))
    /\ ~HoldsExactly(mesh, vertices, indices, EarliestLargest(indices))

---------------------------------------------------------------------------
(* Properties of one call, checked under Spec *)

Invoked(fn) == \E c \in calls : c.fn = fn

StartsWithMagic(bytes) ==
    /\ Len(bytes) >= 4
    /\ bytes[1] = "N" /\ bytes[2] = "G" /\ bytes[3] = "S" /\ bytes[4] = "P"

\* what the external parser the routing selects answers on this buffer
DecodeFails(d) ==
    IF StartsWithMagic(d.bytes) THEN d.body.spz # "ok" ELSE d.body.ply # "ok"

AllNaN(points) == \A i \in DOMAIN points : IsNaN(points[i].point)

IndicesInRange(verts, idx) ==
    \A k \in DOMAIN idx : idx[k] >= 0 /\ 3 * idx[k] + 3 <= Len(verts)

EmptyResult ==
    [tag |-> "ok", vertices |-> <<>>, indices |-> <<>>,
     vertex_count |-> 0, face_count |-> 0]

\* C1: in the plane path and in the NavMesh path, every index emitted, every
\* index of the mesh the connectivity filter returns and every index of the
\* result handed to the host is below the vertex count of its buffer.
C1_IndicesBelowVertexCount ==
    (settings.mode \in {1, 2}) =>
        /\ pc = "emit" => IndicesInRange(vertices, indices)
        /\ mesh # NoMesh => IndicesInRange(mesh.vertices, mesh.indices)
        /\ ret.tag = "ok" =>
              \A k \in DOMAIN ret.indices : ret.indices[k] < ret.vertex_count

\* the filter dropped a component and its vertices, and renumbered the rest
C1_Witness ==
    /\ settings.mode = 2
    /\ pc = "done" /\ ret.tag = "ok"
    /\ ret.face_count > 0
    /\ ret.face_count < Len(indices) \div 3
    /\ ret.vertex_count < Len(vertices) \div 3
    /\ \E k \in DOMAIN ret.indices : ret.indices[k] = ret.vertex_count - 1

\* C4: in every mode, once decoding succeeded with an empty list or with
\* NaN positions only, no reconstructor runs, the mesh is empty and the
\* call returns success with zero counts; the same in NavMesh when the
\* region and floater filters leave no sample.
C4_EmptyInputEmptyMesh ==
    /\ (Invoked("reconstruct_mesh") /\ AllNaN(splats)) =>
          /\ pc \in {"mesh_ready", "done"}
          /\ mesh = EmptyMesh
          /\ pc = "done" => ret = EmptyResult
    /\ (Invoked("reconstruct_voxel_navmesh") /\ pc # "nav_filter"
          /\ nav.oriented = <<>>) =>
          /\ pc \in {"mesh_ready", "done"}
          /\ mesh = EmptyMesh
          /\ pc = "done" => ret = EmptyResult

\* a file of NaN-position samples only was converted to the empty mesh
C4_Witness ==
    /\ pc = "done"
    /\ splats # <<>> /\ AllNaN(splats)
    /\ ret = EmptyResult

\* C6: when the decoder fails, reconstruct_mesh is never invoked, no mesh
\* exists, and the call ends with the error and nothing else.
C6_DecodeFailureIsError ==
    DecodeFails(data) =>
        /\ pc \in {"parse", "done"}
        /\ ~Invoked("reconstruct_mesh")
        /\ ~Invoked("reconstruct_poisson")
        /\ ~Invoked("reconstruct_plane_ransac")
        /\ ~Invoked("reconstruct_voxel_navmesh")
        /\ mesh = NoMesh
        /\ pc = "done" => ret = [tag |-> "err"]

\* a PLY header without a vertex element ended the call with the error
C6_Witness ==
    /\ pc = "done"
    /\ ~StartsWithMagic(data.bytes) /\ data.body.ply = "novertex"
    /\ ret.tag = "err"
    /\ ~Invoked("reconstruct_mesh")

\* C10: the packed decoder runs exactly when the buffer has at least four
\* bytes and starts with "NGSP"; otherwise the PLY parser runs; never both.
C10_RoutesByMagic ==
    pc # "parse" =>
        /\ Invoked("spz_rs") <=> StartsWithMagic(data.bytes)
        /\ Invoked("ply_rs") <=> ~StartsWithMagic(data.bytes)

\* a packed buffer failed to unpack and was not retried as PLY
C10_Witness ==
    /\ pc = "done" /\ ret.tag = "err"
    /\ StartsWithMagic(data.bytes)
    /\ Invoked("spz_rs") /\ ~Invoked("ply_rs")

\* the decoded samples form a grid on the vertical plane z = 0, normals
\* along +Z, every sample opaque
VerticalWall(points) ==
    /\ Len(points) >= 4
    /\ \A i \in DOMAIN points :
         /\ ~IsNaN(points[i].point)
         /\ points[i].point[3] = 0
         /\ points[i].normal = <<0, 0, 1>>
         /\ points[i].opacity = 100
    /\ \E i \in DOMAIN points, j \in DOMAIN points :
         points[i].point[1] # points[j].point[1]
    /\ \E i \in DOMAIN points, j \in DOMAIN points :
         points[i].point[2] # points[j].point[2]

\* C8 as stated: mode 2 with default settings on a vertical wall returns the
\* empty mesh.
C8_WallGivesEmptyMesh ==
    (pc = "done" /\ ret.tag = "ok" /\ settings = DefaultSettings(2)
       /\ VerticalWall(splats)) =>
        ret.face_count = 0 /\ ret.vertex_count = 0

\* C9 as stated: no sample with a NaN position is handed to the Poisson
\* solver, to the plane RANSAC or to the NavMesh pipeline, nor survives the
\* NavMesh region and floater filters.
C9_NaNSamplesDropped ==
    /\ \A c \in calls :
         c.fn \in {"reconstruct_poisson", "reconstruct_plane_ransac",
                   "reconstruct_voxel_navmesh"} =>
             \A i \in DOMAIN c.pts : ~IsNaN(c.pts[i])
    /\ (nav # NoNav /\ nav.fn = "navmesh") =>
         \A i \in DOMAIN nav.oriented : ~IsNaN(nav.oriented[i].point)

---------------------------------------------------------------------------
(* Face steepness, checked under SpecEmit *)

\* position of vertex i in the coordinates of the height field: the emitted
\* Y is negated (mesh.rs 383)
FieldPos(verts, i) == <<verts[3 * i + 1], -verts[3 * i + 2], verts[3 * i + 3]>>

\* normal of face f = (a, b, c) as the steepness test takes it: both
\* triangles of a cell are emitted with the last two corners exchanged
\* (mesh.rs 396-403 against 352-353)
FieldNormal(verts, idx, f) ==
    Cross(VSub(FieldPos(verts, idx[3 * f + 3]), FieldPos(verts, idx[3 * f + 1])),
          VSub(FieldPos(verts, idx[3 * f + 2]), FieldPos(verts, idx[3 * f + 1])))

RECURSIVE Gcd(_, _)
Gcd(a, b) == IF b = 0 THEN a ELSE Gcd(b, a % b)

\* a vector of the same direction with coprime components
Shortest(n) ==
    LET g == Gcd(Gcd(Abs(n[1]), Abs(n[2])), Abs(n[3]))
    IN IF g = 0 THEN n ELSE <<n[1] \div g, n[2] \div g, n[3] \div g>>

\* (n / |n|) . up >= thousandths / 1000, for a unit up
UnitDotAtLeast(n, up, thousandths) ==
    /\ Dot(n, up) >= 0
    /\ 1000000 * Dot(Shortest(n), up) * Dot(Shortest(n), up)
          >= thousandths * thousandths * Dot(Shortest(n), Shortest(n))

\* C5 as stated: every triangle of the NavMesh output has a unit normal
\* whose dot product with up is at least 0.707.
C5_FacesWithin45Degrees ==
    (pc = "mesh_ready" /\ mesh # NoMesh) =>
        \A f \in FacesOf(mesh.indices) :
            UnitDotAtLeast(FieldNormal(mesh.vertices, mesh.indices, f), nav.up, 707)

---------------------------------------------------------------------------
(* Repeatability, checked under SpecTwice *)

\* C7 as stated, for calls whose ground RANSAC found a plane: when both
\* calls on the same buffer and settings return faces, the second returns
\* the vertices and indices the first call returned.
C7_SameOutputTwice ==
    (pc = "done" /\ prev # NoMesh /\ prev.tag = "ok" /\ ret.tag = "ok"
       /\ prev.face_count > 0 /\ ret.face_count > 0) =>
        /\ ret.vertices = prev.vertices
        /\ ret.indices = prev.indices

---------------------------------------------------------------------------
(* Properties of face emission, checked under SpecEmit *)

\* the sorted-vertex signature of face f: the set of its vertex indices
Signature(idx, f) == {idx[3 * f + 1], idx[3 * f + 2], idx[3 * f + 3]}

NoDuplicateTriangles(idx) ==
    /\ \A f \in FacesOf(idx) : Cardinality(Signature(idx, f)) = 3
    /\ \A f \in FacesOf(idx), g \in FacesOf(idx) :
         f # g => Signature(idx, f) # Signature(idx, g)

\* C11: at every point of the emission and in the mesh the connectivity
\* filter returns, the three indices of a triangle are pairwise distinct
\* and no two triangles have the same set of vertex indices.
C11_NoDuplicateTriangles ==
    /\ pc = "emit" => NoDuplicateTriangles(indices)
    /\ pc = "mesh_ready" =>
          NoDuplicateTriangles(indices) /\ NoDuplicateTriangles(mesh.indices)

\* four cells around a shared corner were emitted and kept: eight triangles
C11_Witness ==
    /\ pc = "mesh_ready"
    /\ Len(indices) = 24
    /\ Len(mesh.indices) = 24
    /\ NoDuplicateTriangles(mesh.indices)

---------------------------------------------------------------------------
(* Properties of the plane mode, checked under Spec *)

PlaneFound == nav # NoNav /\ nav.fn = "plane" /\ nav.best_plane.some

\* C12: in mode 1 the mesh is the empty mesh when the RANSAC returned no
\* plane (or never ran: fewer than 3 valid points), and otherwise 12 floats
\* with the index buffer 0,1,2,0,2,3; the host receives the same, with
\* counts 0,0 or 4,2.
C12_PlaneModeShape ==
    (settings.mode = 1 /\ mesh # NoMesh) =>
        /\ IF PlaneFound
           THEN Len(mesh.vertices) = 12 /\ mesh.indices = <<0, 1, 2, 0, 2, 3>>
           ELSE mesh.vertices = <<>> /\ mesh.indices = <<>>
        /\ pc = "done" =>
              /\ ret.tag = "ok"
              /\ ret.vertices = mesh.vertices /\ ret.indices = mesh.indices
              /\ <<ret.vertex_count, ret.face_count>> \in {<<0, 0>>, <<4, 2>>}

\* a plane fitted to three valid points gave the quad
C12_Witness ==
    /\ settings.mode = 1 /\ pc = "done"
    /\ PlaneFound /\ nav.max_inliers = 3 /\ Len(nav.pts) = 3
    /\ ret.vertex_count = 4 /\ ret.face_count = 2

---------------------------------------------------------------------------
(* Properties of the plane RANSAC, checked under SpecRansac.  A trial is   *)
(* judged from the points it drew: the plane model's NaN normal plays no   *)
(* part in these definitions.                                              *)

SpanNormal(pts, d) ==
    Cross(VSub(pts[d[2] + 1], pts[d[1] + 1]), VSub(pts[d[3] + 1], pts[d[1] + 1]))

\* the three indices are pairwise distinct and the points not colinear
ValidDraw(pts, d) ==
    /\ d[1] # d[2] /\ d[2] # d[3] /\ d[1] # d[3]
    /\ SpanNormal(pts, d) # Zero3

\* p is closer than tau to the plane through the three drawn points
NearSpan(pts, d, p, tau) ==
    LET off == Dot(SpanNormal(pts, d), VSub(p, pts[d[1] + 1]))
    IN off * off < tau * tau * Dot(SpanNormal(pts, d), SpanNormal(pts, d))

InlierCount(pts, d, tau) ==
    Cardinality({i \in DOMAIN pts : NearSpan(pts, d, pts[i], tau)})

ValidTrials(k) == {j \in 1..k : ValidDraw(nav.pts, data.rng[j])}

TrialCount(j) == InlierCount(nav.pts, data.rng[j], plane_threshold)

\* the earliest of the valid trials with the most inliers
BestTrial(k) ==
    CHOOSE j \in ValidTrials(k) :
        \A i \in ValidTrials(k) :
            TrialCount(i) < TrialCount(j) \/ (TrialCount(i) = TrialCount(j) /\ j <= i)

\* C13: after any number of trials the best plane is the plane of the
\* earliest trial with the maximum inlier count among the trials that drew
\* three distinct indices of non-colinear points, and it is None exactly
\* when there was no such trial.
C13_BestOfValidTrials ==
    IF ValidTrials(nav.iter) = {}
    THEN ~nav.best_plane.some
    ELSE /\ nav.best_plane.some
         /\ ~nav.best_plane.v.nan
         /\ nav.best_plane.v.n = SpanNormal(nav.pts, data.rng[BestTrial(nav.iter)])
         /\ nav.best_plane.v.dn =
              -Dot(SpanNormal(nav.pts, data.rng[BestTrial(nav.iter)]),
                   nav.pts[data.rng[BestTrial(nav.iter)][1] + 1])
         /\ nav.max_inliers = TrialCount(BestTrial(nav.iter))

\* all trials done: two trials drew different planes with the same inlier
\* count, and the plane of the earlier one is the best plane
C13_Witness ==
    /\ nav.iter = Len(data.rng)
    /\ nav.best_plane.some
    /\ \E i \in ValidTrials(nav.iter), j \in ValidTrials(nav.iter) :
         /\ i < j
         /\ TrialCount(i) = TrialCount(j)
         /\ SpanNormal(nav.pts, data.rng[i]) # SpanNormal(nav.pts, data.rng[j])
         /\ nav.best_plane.v.n = SpanNormal(nav.pts, data.rng[i])
         /\ nav.max_inliers = TrialCount(i)


\* the survivors are finite and three of them span a plane
SpanAPlane(pts) ==
    /\ \A i \in DOMAIN pts : ~IsNaN(pts[i])
    /\ \E i1, i2, i3 \in 0..(Len(pts) - 1) : ValidDraw(pts, <<i1, i2, i3>>)

\* C14: in NavMesh the ground RANSAC is run over the surviving positions:
\* when the basis has been built from survivors that span a plane, the
\* trial budget has been spent on them, so that the fallback up = (0,1,0)
\* is only reached when no trial produced a plane.
C14_RansacRunOverSurvivors ==
    (pc = "nav_splat" /\ SpanAPlane(nav.pts))
        => nav.iter = Min2(nav_iterations, RansacIters)

(***************************************************************************)
(* The NavMesh sample filter, stated from the samples alone.               *)
(***************************************************************************)

\* q, with Y negated, lies in the closed box [lo, hi] on all three axes
InsideBox(lo, hi, q) ==
    /\ ~IsNaN(q)
    /\ lo[1] <= q[1] /\ q[1] <= hi[1]
    /\ lo[2] <= -q[2] /\ -q[2] <= hi[2]
    /\ lo[3] <= q[3] /\ q[3] <= hi[3]

BoxSupplied(st) == st.region_min.some /\ st.region_max.some

Survives(st, p) ==
    /\ BoxSupplied(st) =>
         InsideBox(st.region_min.v, st.region_max.v, rot_apply(st.rotation, p.point))
    /\ p.opacity > unwrap_or(st.min_alpha, default_min_alpha)
    /\ \A k \in 1..3 : p.scale[k] < unwrap_or(st.max_scale, default_max_scale)

\* the surviving samples in input order, with rotated position and normal
RECURSIVE Survivors(_, _)
Survivors(st, points) ==
    IF points = <<>> THEN <<>>
    ELSE LET p == points[Len(points)]
             front == Survivors(st, SubSeq(points, 1, Len(points) - 1))
         IN IF Survives(st, p)
            THEN Append(front, [point |-> rot_apply(st.rotation, p.point),
                                normal |-> rot_apply(st.rotation, p.normal),
                                scale |-> p.scale, opacity |-> p.opacity])
            ELSE front

\* C15: once NavMesh has filtered its input, the oriented points are
\* exactly the samples that lie inside the region box (when one is
\* supplied), are opaque enough and are small enough, in input order, with
\* rotated position and normal and unchanged scale and opacity.
C15_SurvivorsAreTheSolidInside ==
    pc = "nav_ransac" => nav.oriented = Survivors(settings, nav.points)

(***************************************************************************)
(* Coverage of the emitted faces, stated from the accumulators.            *)
(***************************************************************************)

\* grid corner g (counted from 0) gathered a weight of at least 0.01; a sum
\* with a NaN term is not at least anything
Covered(g) ==
    /\ ~nav.accum[g + 1].nan
    /\ nav.accum[g + 1].total_w >= 10000

\* the four grid corners of cell (c, r)
CellCorners(c, r) ==
    {r * (nav.cols + 1) + c, r * (nav.cols + 1) + c + 1,
     (r + 1) * (nav.cols + 1) + c, (r + 1) * (nav.cols + 1) + c + 1}

\* the vertex indices of the k-th emitted pair of triangles
QuadVertices(k) == {indices[6 * (k - 1) + j] : j \in 1..6}

\* C16: during and after face emission a grid corner has a height exactly
\* when its accumulated weight is at least 0.01, every pair of emitted
\* triangles lies on a cell whose four corners are all covered, every
\* emitted vertex belongs to a covered corner, and every vertex of the
\* returned mesh is one of the emitted vertices.
C16_FacesOnlyOverCoveredCorners ==
    pc \in {"emit", "mesh_ready"} =>
        /\ \A i \in DOMAIN nav.heights : nav.heights[i].some <=> Covered(i - 1)
        /\ \A v \in 0..(Len(vertices) \div 3 - 1) :
             \E g \in DOMAIN nav.vmap : nav.vmap[g] = v /\ Covered(g)
        /\ \A k \in 1..(Len(indices) \div 6) :
             \E c \in 0..(nav.cols - 1), r \in 0..(nav.rows - 1) :
                /\ \A g \in CellCorners(c, r) : Covered(g) /\ g \in DOMAIN nav.vmap
                /\ QuadVertices(k) = {nav.vmap[g] : g \in CellCorners(c, r)}
        /\ pc = "mesh_ready" =>
             \A v \in 0..(Len(mesh.vertices) \div 3 - 1) :
                \E w \in 0..(Len(vertices) \div 3 - 1) :
                   \A j \in 1..3 : mesh.vertices[3 * v + j] = vertices[3 * w + j]

\* faces were returned although one corner of the grid gathered some weight
\* below 0.01 and so stayed without a height
C16_Witness ==
    /\ pc = "mesh_ready"
    /\ Len(mesh.indices) > 0
    /\ \E i \in DOMAIN nav.accum :
         /\ nav.accum[i].total_w > 0 /\ nav.accum[i].total_w < 10000
         /\ ~nav.heights[i].some

(***************************************************************************)
(* Vertex deduplication during face emission.                              *)
(***************************************************************************)

\* the cells the emission loops have passed, in row-major order
CellsPassed ==
    {cr \in (0..(nav.cols - 1)) \X (0..(nav.rows - 1)) :
        cr[2] < nav.row \/ (cr[2] = nav.row /\ cr[1] < nav.col)}

\* the passed cells that were emitted
EmittedCells == {cr \in CellsPassed : cell_verdict(nav, cr[1], cr[2]) = "emit"}

\* the grid corners of the cells E, and the cells of E that use corner g
CornersOf(E) == UNION {CellCorners(cr[1], cr[2]) : cr \in E}
CellsUsing(E, g) == {cr \in E : g \in CellCorners(cr[1], cr[2])}

VertexMapInjective ==
    \A g1, g2 \in DOMAIN nav.vmap : nav.vmap[g1] = nav.vmap[g2] => g1 = g2

\* the map of this step survives the step unchanged, entry by entry
VertexMapKept ==
    (pc = "emit" /\ pc' \in {"emit", "mesh_ready"}) =>
        \A g \in DOMAIN nav.vmap : g \in DOMAIN nav'.vmap /\ nav'.vmap[g] = nav.vmap[g]

\* C17: during emission the map from grid corner to vertex index is
\* injective, its corners are exactly the corners of the emitted cells, each
\* of them owns one vertex of three floats placed at the corner, the vertex
\* count equals the number of those corners, and no step changes an index
\* already assigned.
C17_OneVertexPerCorner ==
    /\ [](pc \in {"emit", "mesh_ready"} =>
            LET corners == CornersOf(EmittedCells)
            IN /\ VertexMapInjective
               /\ DOMAIN nav.vmap = corners
               /\ Len(vertices) = 3 * Cardinality(corners)
               /\ {nav.vmap[g] : g \in DOMAIN nav.vmap} = 0..(Cardinality(corners) - 1)
               /\ \A g \in DOMAIN nav.vmap :
                    LET pos == corner_pos(nav, g % (nav.cols + 1), g \div (nav.cols + 1),
                                          nav.heights[g + 1].v)
                    IN /\ vertices[3 * nav.vmap[g] + 1] = pos[1]
                       /\ vertices[3 * nav.vmap[g] + 2] = -pos[2]
                       /\ vertices[3 * nav.vmap[g] + 3] = pos[3])
    /\ [][VertexMapKept]_vars

\* the loops are over and one corner served four emitted cells, another two
\* and another one
C17_Witness ==
    /\ pc = "mesh_ready"
    /\ \E g1, g2, g4 \in DOMAIN nav.vmap :
         /\ Cardinality(CellsUsing(EmittedCells, g1)) = 1
         /\ Cardinality(CellsUsing(EmittedCells, g2)) = 2
         /\ Cardinality(CellsUsing(EmittedCells, g4)) = 4

(***************************************************************************)
(* Vertex compaction after the connectivity filter.                        *)
(***************************************************************************)

\* the number of members of U below v: the one order-preserving bijection
\* from U onto 0..(Cardinality(U) - 1)
RankIn(U, v) == Cardinality({u \in U : u < v})

\* the mesh m is the faces C of (verts, idx) in buffer order, corner by
\* corner, over exactly the vertices those faces use, renumbered by rank
Compacts(m, verts, idx, C) ==
    LET kept == SortedSeq(C)
        U == {idx[3 * f + a] : f \in C, a \in 1..3}
    IN /\ Len(m.indices) = 3 * Cardinality(C)
       /\ Len(m.vertices) = 3 * Cardinality(U)
       /\ \A k \in 1..Cardinality(C), a \in 1..3 :
            m.indices[3 * (k - 1) + a] = RankIn(U, idx[3 * kept[k] + a])
       /\ \A u \in U, j \in 1..3 : m.vertices[3 * RankIn(U, u) + j] = verts[3 * u + j]
       /\ {m.indices[i] : i \in DOMAIN m.indices} = 0..(Cardinality(U) - 1)

\* C18: when the filter has rebuilt a mesh with faces, the result is some
\* set of the emitted faces in their old order and winding, over exactly
\* the vertices they use, renumbered by the order-preserving bijection onto
\* 0..k-1, each new vertex carrying the coordinates of its old vertex.
C18_CompactionKeepsOrder ==
    (pc = "mesh_ready" /\ Len(indices) > 0) =>
        \E C \in SUBSET FacesOf(indices) :
            C # {} /\ Compacts(mesh, vertices, indices, C)

\* faces were dropped and the first returned vertex is not the first
\* emitted one: the kept vertices were renumbered downwards
C18_Witness ==
    /\ pc = "mesh_ready"
    /\ 0 < Len(mesh.indices) /\ Len(mesh.indices) < Len(indices)
    /\ Len(mesh.vertices) < Len(vertices)
    /\ Corner(mesh.vertices, 0) # Corner(vertices, 0)

(***************************************************************************)
(* The flood fill of the connectivity filter.                              *)
(***************************************************************************)

RECURSIVE SumSeq(_)
SumSeq(s) == IF s = <<>> THEN 0 ELSE s[Len(s)] + SumSeq(SubSeq(s, 1, Len(s) - 1))

\* the flood fill has locals, and it has run to its end
FloodRunning == pc \in {"cc_scan", "cc_bfs"} \/ (pc = "cc_done" /\ Len(indices) > 0)
FloodOver == pc = "cc_done" /\ Len(indices) > 0

\* a bound on the steps the filter still has to take: the start faces not
\* yet scanned, the faces not yet popped and the faces not yet labelled
FloodMeasure ==
    IF pc = "cc_entry" THEN 3 * (Len(indices) \div 3) + 2
    ELSE IF pc = "cc_done" THEN 0
    ELSE 1 + ((Len(indices) \div 3) - cc.start_face)
           + ((Len(indices) \div 3) - SumSeq(cc.component_sizes)
                - (IF pc = "cc_bfs" THEN cc.size ELSE 0))
           + Cardinality({f \in DOMAIN cc.face_component : cc.face_component[f] < 0})

\* C19: the flood fill terminates (every step lowers a measure that is never
\* negative); a face is enqueued at most once, exactly when it gets its
\* label; at the end no face is left at -1, the component sizes count the
\* faces of each label and sum to the face count, and two faces carry the
\* same label exactly when a chain of faces sharing vertices links them.
C19_FloodFillLabelsEveryFaceOnce ==
    /\ [](FloodMeasure >= 0)
    /\ [][FloodMeasure' < FloodMeasure]_vars
    /\ [](FloodRunning =>
            \A f \in DOMAIN cc.face_component :
                /\ cc.pushes[f] <= 1
                /\ cc.pushes[f] = 1 <=> cc.face_component[f] >= 0)
    /\ [](FloodOver =>
            /\ \A f \in DOMAIN cc.face_component :
                 cc.face_component[f] \in 0..(Len(cc.component_sizes) - 1)
            /\ SumSeq(cc.component_sizes) = Len(indices) \div 3
            /\ \A c \in DOMAIN cc.component_sizes :
                 cc.component_sizes[c] =
                    Cardinality({f \in DOMAIN cc.face_component : cc.face_component[f] = c - 1})
            /\ \A f, g \in FacesOf(indices) :
                 cc.face_component[f + 1] = cc.face_component[g + 1]
                    <=> g \in LinkedTo(indices, {f}))

\* the fill is over for three faces, the first and the third in one
\* component and the second in another
C19_Witness ==
    /\ FloodOver
    /\ Len(indices) = 9
    /\ cc.face_component[1] = cc.face_component[3]
    /\ cc.face_component[2] # cc.face_component[1]

=========================================================================
